---- MODULE Spec2Model ----
(***************************************************************************)
(* Model of api/namespace.c (wireguard-nt): the private-namespace context, *)
(* the derivation of pool mutex names, and acquire / release of the named  *)
(* kernel mutexes.                                                         *)
(*                                                                         *)
(* Threads are callers of one process (the context and its critical        *)
(* section are statics of that process).  The table of named kernel        *)
(* mutexes is machine wide; a caller's termination covers both a thread    *)
(* exit (its handle stays open) and a process exit (its handle is closed). *)
(***************************************************************************)
EXTENDS Integers, Sequences, FiniteSets, TLC

\* ------------------------------------------------------------------ bounds
MaxNameLen == 3

\* Two concurrent callers.
Threads == {"t1", "t2"}
NoThread == "none"

\* ------------------------------------------------- name derivation (pure)
\* UTF-16 code units used to build pool names:
\* 65 = U+0041 "A", 769 = U+0301 combining acute, 193 = U+00C1 "A acute"
\* (the canonical composition of 65,769), 321 = U+0141 "L stroke" (0x0141:
\* same low byte as U+0041).
Alphabet == {65, 769, 193, 321}

RECURSIVE NamesOfLen(_)
NamesOfLen(n) ==
    IF n = 0 THEN {<<>>}
    ELSE {Append(s, c) : s \in NamesOfLen(n - 1), c \in Alphabet}

Names == UNION {NamesOfLen(n) : n \in 0..MaxNameLen}

\* NormalizeString(NormalizationC, ...): canonical composition.  Over the
\* alphabet the only composable pair is U+0041 U+0301 -> U+00C1.
RECURSIVE NormalizeString(_)
NormalizeString(s) ==
    IF Len(s) = 0 THEN <<>>
    ELSE IF Len(s) >= 2 /\ s[1] = 65 /\ s[2] = 769
         THEN <<193>> \o NormalizeString(SubSeq(s, 3, Len(s)))
         ELSE <<s[1]>> \o NormalizeString(Tail(s))

\* NormalizeStringAlloc returns the normalized, null-terminated copy.
NormalizeStringAlloc(Source) == NormalizeString(Source) \o <<0>>

\* wcslen: number of code units before the first null.
RECURSIVE wcslen(_)
wcslen(str) ==
    IF Len(str) = 0 \/ str[1] = 0 THEN 0 ELSE 1 + wcslen(Tail(str))

\* (PUCHAR) view of a WCHAR buffer: little-endian bytes of each code unit.
RECURSIVE BytesOf(_)
BytesOf(str) ==
    IF Len(str) = 0 THEN <<>>
    ELSE <<str[1] % 256, str[1] \div 256>> \o BytesOf(Tail(str))

\* First cb bytes of a buffer, as BCryptHashData(h, buf, cb, 0) reads them.
FirstBytes(buf, cb) == SubSeq(BytesOf(buf), 1, cb)

\* sizeof(mutex_label) bytes of the constant label, one token for the block.
mutex_label == <<"WireGuard Adapter Name Mutex Stable Suffix v1 jason@zx2c4.com">>

\* Number of bytes of PoolNorm handed to BCryptHashData (line 148).
PoolNormHashLen(PoolNorm) == wcslen(PoolNorm) + 2

\* The bytes fed to the SHA-256 object: label, then the name bytes.
HashInput(PoolNorm) ==
    mutex_label \o FirstBytes(PoolNorm, PoolNormHashLen(PoolNorm))

\* BCryptFinishHash: SHA-256 taken as injective on its input, so a digest is
\* identified with the byte sequence that produced it.
Sha256Digest(input) == <<"sha256", input>>

MutexNamePrefix == "WireGuard\\WireGuard-Name-Mutex-"

\* The name built in MutexName: prefix followed by the hex of the digest.
FormatMutexName(Hash) == <<MutexNamePrefix, Hash>>

\* Lock name NamespaceTakePoolMutex creates its mutex under for Pool.
PoolMutexName_NoNormalize(Pool) ==
    FormatMutexName(Sha256Digest(HashInput(Pool \o <<0>>)))
PoolMutexName(Pool) ==
    FormatMutexName(Sha256Digest(HashInput(NormalizeStringAlloc(Pool))))

DriverInstallationMutexName == <<"WireGuard\\WireGuard-Driver-Installation-Mutex">>

\* ------------------------------------------------------------------ state
\* Pool names callers pass: one that needs composing, and two names in
\* normal form that differ in their last code unit only.
Pools == {<<65, 769>>, <<65, 65, 65>>, <<65, 65, 321>>}

MutexNames == {PoolMutexName(p) : p \in Pools} \cup {DriverInstallationMutexName}

VARIABLES
    pc,                 \* per thread: the statement the thread is at
    op,                 \* per thread: the API function it is executing
    Pool,               \* per thread: the Pool argument of NamespaceTakePoolMutex
    Initializing,       \* the CRITICAL_SECTION: [valid, owner]
    PrivateNamespace,   \* static HANDLE: "NULL" | "open" | "closed"
    BoundaryDescriptor, \* static HANDLE: "NULL" | "open" | "closed"
    AlgProvider,        \* static BCRYPT_ALG_HANDLE: "NULL" | "open" | "closed"
    LastError,          \* per thread: local LastError / value given to SetLastError
    Sha256,             \* per thread: BCRYPT_HASH_HANDLE "NULL" | "open" | "destroyed"
    PoolNorm,           \* per thread: [buf, state] of the normalized copy
    MutexName,          \* per thread: name passed to CreateMutexW
    Mutex,              \* per thread: HANDLE "NULL" | "open" | "closed"
    Result,             \* per thread: value of WaitForSingleObject
    ret,                \* per thread: value the last acquire call returned
    rel,                \* per thread: resources this call released, in order
    mutexes,            \* kernel objects by name: [handles, owner, abandoned]
    hashObjects,        \* number of BCrypt hash objects not yet destroyed
    heapBufs,           \* number of AllocArray buffers not yet freed
    dIn, dOut           \* name derivation on its own: the two inputs, the outputs

ctx == <<PrivateNamespace, BoundaryDescriptor, AlgProvider>>
locals == <<Sha256, PoolNorm, MutexName, Mutex, Result>>
derive == <<dIn, dOut>>
heap == <<hashObjects, heapBufs>>
vars == <<pc, op, Pool, Initializing, PrivateNamespace, BoundaryDescriptor,
          AlgProvider, LastError, Sha256, PoolNorm, MutexName, Mutex, Result,
          ret, rel, mutexes, hashObjects, heapBufs, dIn, dOut>>

NoBuf == [buf |-> <<>>, state |-> "NULL"]
NoMutex == [handles |-> 0, owner |-> NoThread, abandoned |-> FALSE]
NoName == <<>>

\* Statements of NamespaceTakePoolMutex / NamespaceTakeDriverInstallationMutex
\* (NamespaceRuntimeInit included) and of NamespaceDone.
AcquirePcs == {"ri_enter", "ri_check", "ri_fast_ret", "ri_openalg", "ri_sid",
               "ri_boundary", "ri_addsid", "ri_createns", "ri_openns",
               "ri_leave_ok", "ri_slow_ret", "ri_cl_boundary", "ri_cl_alg",
               "ri_cl_leave", "ri_fail_ret",
               "tp_createhash", "tp_derive", "tp_createmutex", "tp_wait",
               "tp_switch", "tp_cl_poolnorm", "tp_cl_sha",
               "ti_createmutex", "ti_wait", "ti_switch"}
DonePcs == {"nd_enter", "nd_check", "nd_close", "nd_leave", "nd_delete"}

AcquireInFlight == \E u \in Threads : pc[u] \in AcquirePcs
DoneInFlight == \E u \in Threads : pc[u] \in DonePcs

Goto(t, l) == pc' = [pc EXCEPT ![t] = l]

\* State after NamespaceInit(): the statics are zero, the lock is initialized.
Init ==
    /\ pc = [t \in Threads |-> "idle"]
    /\ op = [t \in Threads |-> "none"]
    /\ Pool = [t \in Threads |-> NoName]
    /\ Initializing = [valid |-> TRUE, owner |-> NoThread]
    /\ PrivateNamespace = "NULL"
    /\ BoundaryDescriptor = "NULL"
    /\ AlgProvider = "NULL"
    /\ LastError = [t \in Threads |-> "unset"]
    /\ Sha256 = [t \in Threads |-> "NULL"]
    /\ PoolNorm = [t \in Threads |-> NoBuf]
    /\ MutexName = [t \in Threads |-> NoName]
    /\ Mutex = [t \in Threads |-> "NULL"]
    /\ Result = [t \in Threads |-> "none"]
    /\ ret = [t \in Threads |-> "none"]
    /\ rel = [t \in Threads |-> <<>>]
    /\ mutexes = [m \in MutexNames |-> NoMutex]
    /\ hashObjects = 0
    /\ heapBufs = 0
    /\ dIn = <<>>
    /\ dOut = <<>>

\* ------------------------------------------------------- kernel primitives
\* EnterCriticalSection(&Initializing) at statement of thread t, continuing
\* at next.  On a lock that DeleteCriticalSection has deleted the call is
\* undefined: it either behaves as on an unowned lock or faults the thread.
EnterCriticalSection(t, next) ==
    \/ /\ Initializing.owner = NoThread
       /\ Initializing' = [Initializing EXCEPT !.owner = t]
       /\ Goto(t, next)
    \/ /\ ~Initializing.valid
       /\ UNCHANGED Initializing
       /\ Goto(t, "faulted")

LeaveCriticalSection(t) ==
    Initializing' = [Initializing EXCEPT
                        !.owner = IF @ = t THEN NoThread ELSE @]

\* Closing / freeing / destroying a resource; a second release is a misuse.
Released(h) == IF h = "open" THEN "closed" ELSE "misused"

Log(t, what) == rel' = [rel EXCEPT ![t] = Append(@, what)]

\* Kernel object after one of its handles is closed.
CloseHandleOn(m) ==
    IF mutexes[m].handles <= 1 THEN NoMutex
    ELSE [mutexes[m] EXCEPT !.handles = @ - 1]

\* ------------------------------------------------------------ entry points
\* The frame of an acquire call is gone when it returns: its locals are dead.
DropFrame(t) ==
    /\ Sha256' = [Sha256 EXCEPT ![t] = "NULL"]
    /\ PoolNorm' = [PoolNorm EXCEPT ![t] = NoBuf]
    /\ Result' = [Result EXCEPT ![t] = "none"]
    /\ rel' = [rel EXCEPT ![t] = <<>>]

\* return NULL
ReturnNull(t) ==
    /\ DropFrame(t)
    /\ op' = [op EXCEPT ![t] = "none"]
    /\ Pool' = [Pool EXCEPT ![t] = NoName]
    /\ MutexName' = [MutexName EXCEPT ![t] = NoName]
    /\ Mutex' = [Mutex EXCEPT ![t] = "NULL"]
    /\ ret' = [ret EXCEPT ![t] = "NULL"]
    /\ Goto(t, "idle")

\* return Mutex: the caller now holds the handle of the lock it asked for
ReturnMutex(t) ==
    /\ DropFrame(t)
    /\ UNCHANGED <<op, Pool, MutexName, Mutex>>
    /\ ret' = [ret EXCEPT ![t] = "Mutex"]
    /\ Goto(t, "holding")

\* A caller invokes NamespaceTakePoolMutex(p).
CallTakePoolMutex(t, p) ==
    /\ pc[t] = "idle"
    /\ ~DoneInFlight
    /\ Goto(t, "ri_enter")
    /\ op' = [op EXCEPT ![t] = "pool"]
    /\ Pool' = [Pool EXCEPT ![t] = p]
    /\ LastError' = [LastError EXCEPT ![t] = "unset"]
    /\ ret' = [ret EXCEPT ![t] = "none"]
    /\ UNCHANGED <<Initializing, ctx, locals, rel, mutexes, heap, derive>>

\* A caller invokes NamespaceTakeDriverInstallationMutex().
CallTakeDriverInstallationMutex(t) ==
    /\ pc[t] = "idle"
    /\ ~DoneInFlight
    /\ Goto(t, "ri_enter")
    /\ op' = [op EXCEPT ![t] = "install"]
    /\ LastError' = [LastError EXCEPT ![t] = "unset"]
    /\ ret' = [ret EXCEPT ![t] = "none"]
    /\ UNCHANGED <<Pool, Initializing, ctx, locals, rel, mutexes, heap, derive>>

\* --------------------------------------------------- NamespaceRuntimeInit
\* line 52
RI_Enter(t) ==
    /\ pc[t] = "ri_enter"
    /\ EnterCriticalSection(t, "ri_check")
    /\ UNCHANGED <<op, Pool, ctx, LastError, locals, ret, rel, mutexes, heap, derive>>

\* line 53: if (PrivateNamespace)
AlreadyInitialized_Never == FALSE
AlreadyInitialized == PrivateNamespace # "NULL"

\* lines 53-57
RI_Check(t) ==
    /\ pc[t] = "ri_check"
    /\ IF AlreadyInitialized
       THEN LeaveCriticalSection(t) /\ Goto(t, "ri_fast_ret")
       ELSE UNCHANGED Initializing /\ Goto(t, "ri_openalg")
    /\ UNCHANGED <<op, Pool, ctx, LastError, locals, ret, rel, mutexes, heap, derive>>

\* lines 60-65
RI_OpenAlg(t) ==
    /\ pc[t] = "ri_openalg"
    /\ \E ok \in BOOLEAN :
         IF ok
         THEN /\ AlgProvider' = "open"
              /\ Goto(t, "ri_sid")
              /\ UNCHANGED LastError
         ELSE /\ LastError' = [LastError EXCEPT ![t] = "ERR_OPEN_ALGORITHM"]
              /\ Goto(t, "ri_cl_leave")
              /\ UNCHANGED AlgProvider
    /\ UNCHANGED <<op, Pool, Initializing, PrivateNamespace, BoundaryDescriptor,
                   locals, ret, rel, mutexes, heap, derive>>

\* lines 67-73
RI_CreateSid(t) ==
    /\ pc[t] = "ri_sid"
    /\ \E ok \in BOOLEAN :
         IF ok
         THEN Goto(t, "ri_boundary") /\ UNCHANGED LastError
         ELSE /\ LastError' = [LastError EXCEPT ![t] = "ERR_CREATE_SID"]
              /\ Goto(t, "ri_cl_alg")
    /\ UNCHANGED <<op, Pool, Initializing, ctx, locals, ret, rel, mutexes, heap, derive>>

\* lines 75-80
RI_CreateBoundary(t) ==
    /\ pc[t] = "ri_boundary"
    /\ \E ok \in BOOLEAN :
         IF ok
         THEN /\ BoundaryDescriptor' = "open"
              /\ Goto(t, "ri_addsid")
              /\ UNCHANGED LastError
         ELSE /\ BoundaryDescriptor' = "NULL"
              /\ LastError' = [LastError EXCEPT ![t] = "ERR_CREATE_BOUNDARY"]
              /\ Goto(t, "ri_cl_alg")
    /\ UNCHANGED <<op, Pool, Initializing, PrivateNamespace, AlgProvider,
                   locals, ret, rel, mutexes, heap, derive>>

\* lines 81-85
RI_AddSid(t) ==
    /\ pc[t] = "ri_addsid"
    /\ \E ok \in BOOLEAN :
         IF ok
         THEN Goto(t, "ri_createns") /\ UNCHANGED LastError
         ELSE /\ LastError' = [LastError EXCEPT ![t] = "ERR_ADD_SID"]
              /\ Goto(t, "ri_cl_boundary")
    /\ UNCHANGED <<op, Pool, Initializing, ctx, locals, ret, rel, mutexes, heap, derive>>

\* lines 89-91 and 99-101: CreatePrivateNamespaceW and its error branch
RI_CreateNamespace(t) ==
    /\ pc[t] = "ri_createns"
    /\ \E outcome \in {"ok", "ERROR_ALREADY_EXISTS", "ERR_CREATE_NAMESPACE"} :
         IF outcome = "ok"
         THEN /\ PrivateNamespace' = "open"
              /\ Goto(t, "ri_leave_ok")
              /\ UNCHANGED LastError
         ELSE /\ PrivateNamespace' = "NULL"
              /\ LastError' = [LastError EXCEPT ![t] = outcome]
              /\ Goto(t, IF outcome = "ERROR_ALREADY_EXISTS"
                         THEN "ri_openns" ELSE "ri_cl_boundary")
    /\ UNCHANGED <<op, Pool, Initializing, BoundaryDescriptor, AlgProvider,
                   locals, ret, rel, mutexes, heap, derive>>

\* lines 93-98: OpenPrivateNamespaceW; ERROR_PATH_NOT_FOUND loops
RI_OpenNamespace_IgnoreError(t) ==
    /\ pc[t] = "ri_openns"
    /\ \E outcome \in {"ok", "ERROR_PATH_NOT_FOUND", "ERR_OPEN_NAMESPACE"} :
         /\ PrivateNamespace' = IF outcome = "ok" THEN "open" ELSE "NULL"
         /\ Goto(t, "ri_leave_ok")
         /\ UNCHANGED LastError
    /\ UNCHANGED <<op, Pool, Initializing, BoundaryDescriptor, AlgProvider,
                   locals, ret, rel, mutexes, heap, derive>>
RI_OpenNamespace_NoRetry(t) ==
    /\ pc[t] = "ri_openns"
    /\ \E outcome \in {"ok", "ERROR_PATH_NOT_FOUND", "ERR_OPEN_NAMESPACE"} :
         IF outcome = "ok"
         THEN /\ PrivateNamespace' = "open"
              /\ Goto(t, "ri_leave_ok")
              /\ UNCHANGED LastError
         ELSE /\ PrivateNamespace' = "NULL"
              /\ LastError' = [LastError EXCEPT ![t] = outcome]
              /\ Goto(t, "ri_cl_boundary")
    /\ UNCHANGED <<op, Pool, Initializing, BoundaryDescriptor, AlgProvider,
                   locals, ret, rel, mutexes, heap, derive>>
RI_OpenNamespace(t) ==
    /\ pc[t] = "ri_openns"
    /\ \E outcome \in {"ok", "ERROR_PATH_NOT_FOUND", "ERR_OPEN_NAMESPACE"} :
         IF outcome = "ok"
         THEN /\ PrivateNamespace' = "open"
              /\ Goto(t, "ri_leave_ok")
              /\ UNCHANGED LastError
         ELSE /\ PrivateNamespace' = "NULL"
              /\ LastError' = [LastError EXCEPT ![t] = outcome]
              /\ Goto(t, IF outcome = "ERROR_PATH_NOT_FOUND"
                         THEN "ri_createns" ELSE "ri_cl_boundary")
    /\ UNCHANGED <<op, Pool, Initializing, BoundaryDescriptor, AlgProvider,
                   locals, ret, rel, mutexes, heap, derive>>

\* line 104
RI_LeaveOk_NoLeave(t) ==
    /\ pc[t] = "ri_leave_ok"
    /\ Goto(t, "ri_slow_ret")
    /\ UNCHANGED <<op, Pool, Initializing, ctx, LastError, locals, ret, rel,
                   mutexes, heap, derive>>
RI_LeaveOk(t) ==
    /\ pc[t] = "ri_leave_ok"
    /\ LeaveCriticalSection(t)
    /\ Goto(t, "ri_slow_ret")
    /\ UNCHANGED <<op, Pool, ctx, LastError, locals, ret, rel, mutexes, heap, derive>>

\* line 108
RI_CleanupBoundary_Skip(t) ==
    /\ pc[t] = "ri_cl_boundary"
    /\ Goto(t, "ri_cl_alg")
    /\ UNCHANGED <<op, Pool, Initializing, ctx, LastError, locals, ret, rel,
                   mutexes, heap, derive>>
RI_CleanupBoundary(t) ==
    /\ pc[t] = "ri_cl_boundary"
    /\ BoundaryDescriptor' = Released(BoundaryDescriptor)
    /\ Log(t, "BoundaryDescriptor")
    /\ Goto(t, "ri_cl_alg")
    /\ UNCHANGED <<op, Pool, Initializing, PrivateNamespace, AlgProvider,
                   LastError, locals, ret, mutexes, heap, derive>>

\* line 110
RI_CleanupAlg_Skip(t) ==
    /\ pc[t] = "ri_cl_alg"
    /\ Goto(t, "ri_cl_leave")
    /\ UNCHANGED <<op, Pool, Initializing, ctx, LastError, locals, ret, rel,
                   mutexes, heap, derive>>
RI_CleanupAlg(t) ==
    /\ pc[t] = "ri_cl_alg"
    /\ AlgProvider' = Released(AlgProvider)
    /\ Log(t, "AlgProvider")
    /\ Goto(t, "ri_cl_leave")
    /\ UNCHANGED <<op, Pool, Initializing, PrivateNamespace, BoundaryDescriptor,
                   LastError, locals, ret, mutexes, heap, derive>>

\* line 112
RI_CleanupLeave_NoLeave(t) ==
    /\ pc[t] = "ri_cl_leave"
    /\ Goto(t, "ri_fail_ret")
    /\ UNCHANGED <<op, Pool, Initializing, ctx, LastError, locals, ret, rel,
                   mutexes, heap, derive>>
RI_CleanupLeave(t) ==
    /\ pc[t] = "ri_cl_leave"
    /\ LeaveCriticalSection(t)
    /\ Goto(t, "ri_fail_ret")
    /\ UNCHANGED <<op, Pool, ctx, LastError, locals, ret, rel, mutexes, heap, derive>>

\* lines 56 / 105: return TRUE, and the caller goes on (lines 121, 196)
RI_ReturnTrue(t) ==
    /\ pc[t] \in {"ri_fast_ret", "ri_slow_ret"}
    /\ LastError' = [LastError EXCEPT ![t] = "unset"]
    /\ Goto(t, IF op[t] = "pool" THEN "tp_createhash" ELSE "ti_createmutex")
    /\ UNCHANGED <<op, Pool, Initializing, ctx, locals, ret, rel, mutexes, heap,
                   derive>>

\* lines 113-114: return FALSE, and the caller returns NULL (lines 122, 197)
RI_ReturnFalse_GoOn(t) ==
    /\ pc[t] = "ri_fail_ret"
    /\ Goto(t, IF op[t] = "pool" THEN "tp_createhash" ELSE "ti_createmutex")
    /\ UNCHANGED <<op, Pool, Initializing, ctx, LastError, locals, ret, rel,
                   mutexes, heap, derive>>
RI_ReturnFalse(t) ==
    /\ pc[t] = "ri_fail_ret"
    /\ ReturnNull(t)
    /\ UNCHANGED <<Initializing, ctx, LastError, mutexes, heap, derive>>

\* ---------------------------------------------------- waiting on a mutex
\* WaitForSingleObject(Mutex, INFINITE) returns with ownership only when the
\* object named m has no owner.
WaitSatisfied_NoWait(m) == TRUE
WaitSatisfied(m) == mutexes[m].owner = NoThread

\* The wait of thread t on the object named m: ownership (signaled, or
\* abandoned when the previous owner terminated), or a failed wait.
WaitForSingleObject(t, m) ==
    \/ /\ WaitSatisfied(m)
       /\ Result' = [Result EXCEPT ![t] =
              IF mutexes[m].abandoned THEN "WAIT_ABANDONED" ELSE "WAIT_OBJECT_0"]
       /\ mutexes' = [mutexes EXCEPT ![m] =
              [@ EXCEPT !.owner = t, !.abandoned = FALSE]]
    \/ /\ Result' = [Result EXCEPT ![t] = "WAIT_FAILED"]
       /\ UNCHANGED mutexes

\* lines 173-176 / 205-208: the results the switch returns the handle for
WaitSucceeded_SignaledOnly(r) == r = "WAIT_OBJECT_0"
WaitSucceeded(r) == r \in {"WAIT_OBJECT_0", "WAIT_ABANDONED"}

\* CreateMutexW(&SecurityAttributes, FALSE, name) inside the namespace:
\* creates or opens the object, never as initial owner.
CreateMutexW(t, m) ==
    /\ PrivateNamespace = "open"
    /\ mutexes' = [mutexes EXCEPT ![m] = [@ EXCEPT !.handles = @ + 1]]
    /\ Mutex' = [Mutex EXCEPT ![t] = "open"]
    /\ MutexName' = [MutexName EXCEPT ![t] = m]

\* ------------------------------------------------- NamespaceTakePoolMutex
\* lines 124-131
TP_CreateHash(t) ==
    /\ pc[t] = "tp_createhash"
    /\ \E ok \in BOOLEAN :
         IF ok /\ AlgProvider = "open"
         THEN /\ Sha256' = [Sha256 EXCEPT ![t] = "open"]
              /\ hashObjects' = hashObjects + 1
              /\ Goto(t, "tp_derive")
              /\ UNCHANGED <<op, Pool, LastError, PoolNorm, MutexName, Mutex,
                             Result, ret, rel>>
         ELSE /\ LastError' = [LastError EXCEPT ![t] = "ERR_CREATE_HASH"]
              /\ ReturnNull(t)
              /\ UNCHANGED hashObjects
    /\ UNCHANGED <<Initializing, ctx, mutexes, heapBufs, derive>>

\* lines 133-165: hash the label, normalize, hash the name, finish, format
TP_Derive(t) ==
    /\ pc[t] = "tp_derive"
    /\ \E outcome \in {"ok", "ERR_HASH_LABEL", "ERR_NORMALIZE",
                       "ERR_HASH_NAME", "ERR_FINISH_HASH"} :
         /\ IF outcome \in {"ERR_HASH_LABEL", "ERR_NORMALIZE"}
            THEN UNCHANGED <<PoolNorm, heapBufs>>
            ELSE /\ PoolNorm' = [PoolNorm EXCEPT ![t] =
                        [buf |-> NormalizeStringAlloc(Pool[t]), state |-> "open"]]
                 /\ heapBufs' = heapBufs + 1
         /\ IF outcome = "ok"
            THEN /\ MutexName' = [MutexName EXCEPT ![t] = PoolMutexName(Pool[t])]
                 /\ Goto(t, "tp_createmutex")
                 /\ UNCHANGED LastError
            ELSE /\ LastError' = [LastError EXCEPT ![t] = outcome]
                 /\ Goto(t, IF outcome \in {"ERR_HASH_LABEL", "ERR_NORMALIZE"}
                            THEN "tp_cl_sha" ELSE "tp_cl_poolnorm")
                 /\ UNCHANGED MutexName
    /\ UNCHANGED <<op, Pool, Initializing, ctx, Sha256, Mutex, Result, ret, rel,
                   mutexes, hashObjects, derive>>

\* lines 166-171
TP_CreateMutex(t) ==
    /\ pc[t] = "tp_createmutex"
    /\ \/ /\ CreateMutexW(t, MutexName[t])
          /\ Goto(t, "tp_wait")
          /\ UNCHANGED LastError
       \/ /\ LastError' = [LastError EXCEPT ![t] = "ERR_CREATE_MUTEX"]
          /\ Goto(t, "tp_cl_poolnorm")
          /\ UNCHANGED <<mutexes, Mutex, MutexName>>
    /\ UNCHANGED <<op, Pool, Initializing, ctx, Sha256, PoolNorm, Result, ret,
                   rel, heap, derive>>

\* line 172
TP_Wait(t) ==
    /\ pc[t] = "tp_wait"
    /\ WaitForSingleObject(t, MutexName[t])
    /\ Goto(t, "tp_switch")
    /\ UNCHANGED <<op, Pool, Initializing, ctx, LastError, Sha256, PoolNorm,
                   MutexName, Mutex, ret, rel, heap, derive>>

\* lines 173-183
TP_Switch(t) ==
    /\ pc[t] = "tp_switch"
    /\ IF WaitSucceeded(Result[t])
       THEN /\ heapBufs' = heapBufs - 1
            /\ hashObjects' = hashObjects - 1
            /\ ReturnMutex(t)
            /\ UNCHANGED <<LastError, mutexes>>
       ELSE /\ LastError' = [LastError EXCEPT ![t] = "ERROR_GEN_FAILURE"]
            /\ Mutex' = [Mutex EXCEPT ![t] = Released(@)]
            /\ mutexes' = [mutexes EXCEPT ![MutexName[t]] = CloseHandleOn(MutexName[t])]
            /\ Log(t, "Mutex")
            /\ Goto(t, "tp_cl_poolnorm")
            /\ UNCHANGED <<op, Pool, PoolNorm, Sha256, MutexName, Result, ret, heap>>
    /\ UNCHANGED <<Initializing, ctx, derive>>

\* line 185
TP_CleanupPoolNorm(t) ==
    /\ pc[t] = "tp_cl_poolnorm"
    /\ PoolNorm' = [PoolNorm EXCEPT ![t].state = Released(@)]
    /\ heapBufs' = heapBufs - 1
    /\ Log(t, "PoolNorm")
    /\ Goto(t, "tp_cl_sha")
    /\ UNCHANGED <<op, Pool, Initializing, ctx, LastError, Sha256, MutexName,
                   Mutex, Result, ret, mutexes, hashObjects, derive>>

\* lines 187-189
TP_CleanupSha256_NoDestroy(t) ==
    /\ pc[t] = "tp_cl_sha"
    /\ ReturnNull(t)
    /\ UNCHANGED <<Initializing, ctx, LastError, mutexes, heap, derive>>
TP_CleanupSha256(t) ==
    /\ pc[t] = "tp_cl_sha"
    /\ hashObjects' = hashObjects - 1
    /\ ReturnNull(t)
    /\ UNCHANGED <<Initializing, ctx, LastError, mutexes, heapBufs, derive>>

\* ----------------------------------- NamespaceTakeDriverInstallationMutex
\* lines 198-203
TI_CreateMutex_PoolName(t) ==
    /\ pc[t] = "ti_createmutex"
    /\ \E p \in Pools : CreateMutexW(t, PoolMutexName(p))
    /\ Goto(t, "ti_wait")
    /\ UNCHANGED <<op, Pool, LastError, Sha256, PoolNorm, Result, ret, rel>>
    /\ UNCHANGED <<Initializing, ctx, heap, derive>>
TI_CreateMutex(t) ==
    /\ pc[t] = "ti_createmutex"
    /\ \/ /\ CreateMutexW(t, DriverInstallationMutexName)
          /\ Goto(t, "ti_wait")
          /\ UNCHANGED <<op, Pool, LastError, Sha256, PoolNorm, Result, ret, rel>>
       \/ /\ LastError' = [LastError EXCEPT ![t] = "ERR_CREATE_MUTEX"]
          /\ ReturnNull(t)
          /\ UNCHANGED mutexes
    /\ UNCHANGED <<Initializing, ctx, heap, derive>>

\* line 204
TI_Wait(t) ==
    /\ pc[t] = "ti_wait"
    /\ WaitForSingleObject(t, MutexName[t])
    /\ Goto(t, "ti_switch")
    /\ UNCHANGED <<op, Pool, Initializing, ctx, LastError, Sha256, PoolNorm,
                   MutexName, Mutex, ret, rel, heap, derive>>

\* lines 205-214
TI_Switch_NoClose(t) ==
    /\ pc[t] = "ti_switch"
    /\ IF WaitSucceeded(Result[t])
       THEN /\ ReturnMutex(t)
            /\ UNCHANGED <<LastError, mutexes>>
       ELSE /\ LastError' = [LastError EXCEPT ![t] = "ERROR_GEN_FAILURE"]
            /\ UNCHANGED mutexes
            /\ ReturnNull(t)
    /\ UNCHANGED <<Initializing, ctx, heap, derive>>
TI_Switch(t) ==
    /\ pc[t] = "ti_switch"
    /\ IF WaitSucceeded(Result[t])
       THEN /\ ReturnMutex(t)
            /\ UNCHANGED <<LastError, mutexes>>
       ELSE /\ LastError' = [LastError EXCEPT ![t] = "ERROR_GEN_FAILURE"]
            /\ mutexes' = [mutexes EXCEPT ![MutexName[t]] = CloseHandleOn(MutexName[t])]
            /\ ReturnNull(t)
    /\ UNCHANGED <<Initializing, ctx, heap, derive>>

\* ------------------------------------------------- NamespaceReleaseMutex
\* line 221: ReleaseMutex(Mutex), by the caller that holds the handle
RM_ReleaseMutex_NoRelease(t) ==
    /\ pc[t] = "holding"
    /\ op' = [op EXCEPT ![t] = "release"]
    /\ Goto(t, "rm_close")
    /\ UNCHANGED <<Pool, Initializing, ctx, LastError, locals, ret, rel, mutexes,
                   heap, derive>>
RM_ReleaseMutex(t) ==
    /\ pc[t] = "holding"
    /\ mutexes' = [mutexes EXCEPT ![MutexName[t]] =
           [@ EXCEPT !.owner = IF @ = t THEN NoThread ELSE @]]
    /\ op' = [op EXCEPT ![t] = "release"]
    /\ Goto(t, "rm_close")
    /\ UNCHANGED <<Pool, Initializing, ctx, LastError, locals, ret, rel, heap, derive>>

\* line 222: CloseHandle(Mutex)
RM_CloseHandle(t) ==
    /\ pc[t] = "rm_close"
    /\ mutexes' = [mutexes EXCEPT ![MutexName[t]] = CloseHandleOn(MutexName[t])]
    /\ Mutex' = [Mutex EXCEPT ![t] = "NULL"]
    /\ MutexName' = [MutexName EXCEPT ![t] = NoName]
    /\ op' = [op EXCEPT ![t] = "none"]
    /\ Pool' = [Pool EXCEPT ![t] = NoName]
    /\ ret' = [ret EXCEPT ![t] = "none"]
    /\ Goto(t, "idle")
    /\ UNCHANGED <<Initializing, ctx, LastError, Sha256, PoolNorm, Result,
                   rel, heap, derive>>

\* The holder of a lock terminates without calling NamespaceReleaseMutex: the
\* kernel marks the mutex abandoned; a process exit also closes the handle.
Terminate(t) ==
    /\ pc[t] = "holding"
    /\ \E processExit \in BOOLEAN :
         LET m == MutexName[t]
             abandoned == [mutexes[m] EXCEPT !.owner = NoThread, !.abandoned = TRUE]
         IN  mutexes' = [mutexes EXCEPT ![m] =
                 IF processExit
                 THEN IF abandoned.handles <= 1 THEN NoMutex
                      ELSE [abandoned EXCEPT !.handles = @ - 1]
                 ELSE abandoned]
    /\ Mutex' = [Mutex EXCEPT ![t] = "NULL"]
    /\ MutexName' = [MutexName EXCEPT ![t] = NoName]
    /\ op' = [op EXCEPT ![t] = "none"]
    /\ Pool' = [Pool EXCEPT ![t] = NoName]
    /\ ret' = [ret EXCEPT ![t] = "none"]
    /\ Goto(t, "dead")
    /\ UNCHANGED <<Initializing, ctx, LastError, Sha256, PoolNorm, Result, rel,
                   heap, derive>>

\* ---------------------------------------------------------- NamespaceDone
\* The caller guarantees that no acquisition is in flight.
CallNamespaceDone(t) ==
    /\ pc[t] = "idle"
    /\ ~AcquireInFlight /\ ~DoneInFlight
    /\ op' = [op EXCEPT ![t] = "done"]
    /\ LastError' = [LastError EXCEPT ![t] = "unset"]
    /\ ret' = [ret EXCEPT ![t] = "none"]
    /\ Goto(t, "nd_enter")
    /\ UNCHANGED <<Pool, Initializing, ctx, locals, rel, mutexes, heap, derive>>

\* line 232
ND_Enter(t) ==
    /\ pc[t] = "nd_enter"
    /\ EnterCriticalSection(t, "nd_check")
    /\ UNCHANGED <<op, Pool, ctx, LastError, locals, ret, rel, mutexes, heap, derive>>

\* line 233
ND_Check(t) ==
    /\ pc[t] = "nd_check"
    /\ Goto(t, IF PrivateNamespace # "NULL" THEN "nd_close" ELSE "nd_leave")
    /\ UNCHANGED <<op, Pool, Initializing, ctx, LastError, locals, ret, rel,
                   mutexes, heap, derive>>

\* lines 235-238
ND_Close(t) ==
    /\ pc[t] = "nd_close"
    /\ AlgProvider' = Released(AlgProvider)
    /\ BoundaryDescriptor' = Released(BoundaryDescriptor)
    /\ PrivateNamespace' = "NULL"
    /\ rel' = [rel EXCEPT ![t] =
           @ \o <<"AlgProvider", "PrivateNamespace", "BoundaryDescriptor">>]
    /\ Goto(t, "nd_leave")
    /\ UNCHANGED <<op, Pool, Initializing, LastError, locals, ret, mutexes, heap, derive>>

\* line 240
ND_Leave(t) ==
    /\ pc[t] = "nd_leave"
    /\ LeaveCriticalSection(t)
    /\ Goto(t, "nd_delete")
    /\ UNCHANGED <<op, Pool, ctx, LastError, locals, ret, rel, mutexes, heap, derive>>

\* line 241: DeleteCriticalSection(&Initializing)
ND_DeleteCriticalSection(t) ==
    /\ pc[t] = "nd_delete"
    /\ Initializing' = [Initializing EXCEPT !.valid = FALSE]
    /\ op' = [op EXCEPT ![t] = "none"]
    /\ rel' = [rel EXCEPT ![t] = <<>>]
    /\ Goto(t, "idle")
    /\ UNCHANGED <<Pool, ctx, LastError, locals, ret, mutexes, heap, derive>>

\* ---------------------------------------------------------- NamespaceInit
\* line 227, called again after NamespaceDone
NamespaceInit(t) ==
    /\ pc[t] = "idle"
    /\ ~Initializing.valid
    /\ ~AcquireInFlight /\ ~DoneInFlight
    /\ Initializing' = [valid |-> TRUE, owner |-> NoThread]
    /\ UNCHANGED <<pc, op, Pool, ctx, LastError, locals, ret, rel, mutexes, heap, derive>>

\* ---------------------------------------------------------- specification
Next ==
    \E t \in Threads :
        \/ \E p \in Pools : CallTakePoolMutex(t, p)
        \/ CallTakeDriverInstallationMutex(t)
        \/ RI_Enter(t)
        \/ RI_Check(t)
        \/ RI_OpenAlg(t)
        \/ RI_CreateSid(t)
        \/ RI_CreateBoundary(t)
        \/ RI_AddSid(t)
        \/ RI_CreateNamespace(t)
        \/ RI_OpenNamespace(t)
        \/ RI_LeaveOk(t)
        \/ RI_CleanupBoundary(t)
        \/ RI_CleanupAlg(t)
        \/ RI_CleanupLeave(t)
        \/ RI_ReturnTrue(t)
        \/ RI_ReturnFalse(t)
        \/ TP_CreateHash(t)
        \/ TP_Derive(t)
        \/ TP_CreateMutex(t)
        \/ TP_Wait(t)
        \/ TP_Switch(t)
        \/ TP_CleanupPoolNorm(t)
        \/ TP_CleanupSha256(t)
        \/ TI_CreateMutex(t)
        \/ TI_Wait(t)
        \/ TI_Switch(t)
        \/ RM_ReleaseMutex(t)
        \/ RM_CloseHandle(t)
        \/ Terminate(t)
        \/ CallNamespaceDone(t)
        \/ ND_Enter(t)
        \/ ND_Check(t)
        \/ ND_Close(t)
        \/ ND_Leave(t)
        \/ ND_DeleteCriticalSection(t)
        \/ NamespaceInit(t)

Spec == Init /\ [][Next]_vars

\* ------------------------------------------------------------- scheduling
\* The wait of line 172 / 204 returning with ownership.
WaitAcquire(t) ==
    (TP_Wait(t) \/ TI_Wait(t)) /\ WaitSucceeded(Result'[t])

\* The statements a thread executes by itself once it is inside a call: a
\* running thread is scheduled again, an EnterCriticalSection returns when
\* the lock is free, and a wait returns with ownership when the mutex is
\* free.  Calling an entry point, calling NamespaceReleaseMutex, terminating
\* and a failing wait are not required to happen.
Proceed(t) ==
    \/ RI_Enter(t) \/ RI_Check(t) \/ RI_OpenAlg(t) \/ RI_CreateSid(t)
    \/ RI_CreateBoundary(t) \/ RI_AddSid(t) \/ RI_CreateNamespace(t)
    \/ RI_OpenNamespace(t) \/ RI_LeaveOk(t) \/ RI_CleanupBoundary(t)
    \/ RI_CleanupAlg(t) \/ RI_CleanupLeave(t) \/ RI_ReturnTrue(t)
    \/ RI_ReturnFalse(t)
    \/ TP_CreateHash(t) \/ TP_Derive(t) \/ TP_CreateMutex(t) \/ TP_Switch(t)
    \/ TP_CleanupPoolNorm(t) \/ TP_CleanupSha256(t)
    \/ TI_CreateMutex(t) \/ TI_Switch(t)
    \/ WaitAcquire(t)
    \/ RM_CloseHandle(t)
    \/ ND_Enter(t) \/ ND_Check(t) \/ ND_Close(t) \/ ND_Leave(t)
    \/ ND_DeleteCriticalSection(t)

Fairness == \A t \in Threads : WF_vars(Proceed(t))

SpecFair == Init /\ [][Next]_vars /\ Fairness

\* ------------------------------------ name derivation as a specification
\* What NamespaceTakePoolMutex computes for Pool on lines 141-165.
Derivation(p) ==
    [PoolNorm |-> NormalizeStringAlloc(p),
     fed |-> FirstBytes(NormalizeStringAlloc(p),
                        PoolNormHashLen(NormalizeStringAlloc(p))),
     MutexName |-> PoolMutexName(p)]

InitDerive ==
    /\ pc = [t \in Threads |-> "idle"]
    /\ op = [t \in Threads |-> "none"]
    /\ Pool = [t \in Threads |-> NoName]
    /\ Initializing = [valid |-> TRUE, owner |-> NoThread]
    /\ PrivateNamespace = "NULL"
    /\ BoundaryDescriptor = "NULL"
    /\ AlgProvider = "NULL"
    /\ LastError = [t \in Threads |-> "unset"]
    /\ Sha256 = [t \in Threads |-> "NULL"]
    /\ PoolNorm = [t \in Threads |-> NoBuf]
    /\ MutexName = [t \in Threads |-> NoName]
    /\ Mutex = [t \in Threads |-> "NULL"]
    /\ Result = [t \in Threads |-> "none"]
    /\ ret = [t \in Threads |-> "none"]
    /\ rel = [t \in Threads |-> <<>>]
    /\ mutexes = [m \in MutexNames |-> NoMutex]
    /\ hashObjects = 0
    /\ heapBufs = 0
    /\ dIn \in Names \X Names
    /\ dOut = <<>>

DeriveFirst ==
    /\ Len(dOut) = 0
    /\ dOut' = <<Derivation(dIn[1])>>
    /\ UNCHANGED <<pc, op, Pool, Initializing, ctx, LastError, locals, ret, rel,
                   mutexes, heap, dIn>>

DeriveSecond ==
    /\ Len(dOut) = 1
    /\ dOut' = Append(dOut, Derivation(dIn[2]))
    /\ UNCHANGED <<pc, op, Pool, Initializing, ctx, LastError, locals, ret, rel,
                   mutexes, heap, dIn>>

NextDerive == DeriveFirst \/ DeriveSecond

SpecDerive == InitDerive /\ [][NextDerive]_vars

\* ================================================================ properties
PoolMutexNames == {PoolMutexName(p) : p \in Pools}

\* Thread t owns a lock through an acquire call: its wait has returned with
\* ownership, or the call has returned the handle and release is not yet called.
Acquired(t) ==
    \/ pc[t] = "holding"
    \/ pc[t] \in {"tp_switch", "ti_switch"} /\ WaitSucceeded(Result[t])

LockFree == Initializing.owner = NoThread

\* Statements at which the thread holds Initializing and is past the check of
\* line 53, i.e. is executing the initialization or its unwinding.
SlowPathPcs == {"ri_openalg", "ri_sid", "ri_boundary", "ri_addsid",
                "ri_createns", "ri_openns", "ri_leave_ok",
                "ri_cl_boundary", "ri_cl_alg", "ri_cl_leave"}

\* Statements of NamespaceRuntimeInit reached only after at least one
\* initialization step of this call has run.
AfterFirstStepPcs == (SlowPathPcs \ {"ri_openalg"}) \cup {"ri_slow_ret", "ri_fail_ret"}

InitErrors == {"ERR_OPEN_ALGORITHM", "ERR_CREATE_SID", "ERR_CREATE_BOUNDARY",
               "ERR_ADD_SID", "ERR_CREATE_NAMESPACE", "ERR_OPEN_NAMESPACE"}

\* Canonical equivalence, defined by full canonical decomposition
\* (U+00C1 -> U+0041 U+0301), independently of NormalizeString.
RECURSIVE Decompose(_)
Decompose(s) ==
    IF Len(s) = 0 THEN <<>>
    ELSE (IF s[1] = 193 THEN <<65, 769>> ELSE <<s[1]>>) \o Decompose(Tail(s))

CanonicallyEquivalent(a, b) == Decompose(a) = Decompose(b)

\* C1: mutual exclusion per pool name.  No two callers own the mutex of one
\* pool name at the same time (a caller owns it from the moment its wait
\* returns with ownership until it calls ReleaseMutex), and the owner the
\* kernel records is that caller; so a second NamespaceTakePoolMutex(X) does
\* not return the handle while the first caller has not released.
C1_PoolMutualExclusion ==
    \A t1 \in Threads :
        (Acquired(t1) /\ MutexName[t1] \in PoolMutexNames) =>
            /\ mutexes[MutexName[t1]].owner = t1
            /\ \A t2 \in Threads \ {t1} :
                   ~(Acquired(t2) /\ MutexName[t2] = MutexName[t1])

\* C1 witness: one caller holds the lock of a pool while another caller of
\* the same pool name is blocked in the wait of line 172.
C1_Witness ==
    \E t1, t2 \in Threads :
        /\ t1 # t2
        /\ pc[t1] = "holding" /\ op[t1] = "pool"
        /\ pc[t2] = "tp_wait" /\ Pool[t2] = Pool[t1]
        /\ MutexName[t2] = MutexName[t1]
        /\ ~WaitSatisfied(MutexName[t2])

\* C2: independence of different pools.  A caller that holds the lock of
\* pool A never keeps a caller of a different pool B waiting: the wait of the
\* second caller can return at once.
C2_PoolIndependence ==
    \A t1, t2 \in Threads :
        (/\ pc[t1] = "holding" /\ op[t1] = "pool"
         /\ pc[t2] = "tp_wait"
         /\ Pool[t1] # Pool[t2]
         /\ NormalizeString(Pool[t1]) # NormalizeString(Pool[t2]))
        => WaitSatisfied(MutexName[t2])

\* C3: injectivity of the derivation.  Two distinct pool names in normal form
\* get different lock names.
C3_DerivationInjective ==
    (/\ Len(dOut) = 2
     /\ dIn[1] # dIn[2]
     /\ NormalizeString(dIn[1]) = dIn[1]
     /\ NormalizeString(dIn[2]) = dIn[2])
    => dOut[1].MutexName # dOut[2].MutexName

\* C4: canonical equivalence.  Two pool names that are canonically equivalent
\* (they normalize to the same string) get the same lock name.
C4_CanonicalEquivalence ==
    (/\ Len(dOut) = 2
     /\ \/ NormalizeString(dIn[1]) = NormalizeString(dIn[2])
        \/ CanonicallyEquivalent(dIn[1], dIn[2]))
    => dOut[1].MutexName = dOut[2].MutexName

\* C4 witness: two differently encoded, canonically equivalent names have
\* both been derived.
C4_Witness ==
    /\ Len(dOut) = 2
    /\ dIn[1] # dIn[2]
    /\ CanonicallyEquivalent(dIn[1], dIn[2])
    /\ dOut[1].PoolNorm = dOut[2].PoolNorm
    /\ dOut[1].MutexName = dOut[2].MutexName

\* C5: abandoned recovery.  A mutex whose holder terminated has no owner, so
\* a wait on it is satisfied; and a caller whose wait returned WAIT_ABANDONED
\* returns the handle, open and owned by it, not an error.
C5_AbandonedRecovery ==
    /\ [](\A m \in MutexNames : mutexes[m].abandoned => WaitSatisfied(m))
    /\ [][\A t \in Threads :
            (/\ pc[t] \in {"tp_switch", "ti_switch"}
             /\ Result[t] = "WAIT_ABANDONED"
             /\ pc'[t] # pc[t])
            => /\ pc'[t] = "holding"
               /\ ret'[t] = "Mutex"
               /\ Mutex'[t] = "open"
               /\ mutexes'[MutexName'[t]].owner = t]_vars

\* C5 witness: a caller holds a lock whose previous holder terminated without
\* releasing it (the dead holder's handle keeps the abandoned object alive).
C5_Witness ==
    \E t \in Threads :
        /\ pc[t] = "holding"
        /\ mutexes[MutexName[t]].owner = t
        /\ mutexes[MutexName[t]].handles = 2
        /\ \A u \in Threads \ {t} : pc[u] = "dead"

\* C6: the installation lock.  Every NamespaceTakeDriverInstallationMutex
\* call uses the one constant name, which no pool name maps to, and no two
\* callers own that mutex at the same time.
C6_InstallationMutualExclusion ==
    /\ \A t \in Threads :
           pc[t] \in {"ti_wait", "ti_switch"} \/ (pc[t] = "holding" /\ op[t] = "install")
               => MutexName[t] = DriverInstallationMutexName
    /\ DriverInstallationMutexName \notin PoolMutexNames
    /\ \A t1, t2 \in Threads :
           (/\ t1 # t2
            /\ Acquired(t1) /\ op[t1] = "install"
            /\ Acquired(t2) /\ op[t2] = "install")
           => FALSE

\* C6 witness: one caller holds the installation lock under the constant
\* name and a second one is blocked in the wait of line 204.
C6_Witness ==
    \E t1, t2 \in Threads :
        /\ t1 # t2
        /\ pc[t1] = "holding" /\ op[t1] = "install"
        /\ pc[t2] = "ti_wait"
        /\ MutexName[t1] = DriverInstallationMutexName
        /\ MutexName[t2] = DriverInstallationMutexName
        /\ mutexes[DriverInstallationMutexName].owner = t1
        /\ ~WaitSatisfied(DriverInstallationMutexName)

\* C7 as stated: of the callers inside NamespaceRuntimeInit, only one has
\* executed initialization steps; the others have executed none.
C7_SingleInitialization ==
    Cardinality({t \in Threads : pc[t] \in AfterFirstStepPcs}) <= 1

\* C7 amended: initialization steps are executed by one caller at a time and
\* only on an uninitialized context; at most one caller in flight completes
\* the sequence, and while it is in flight no other caller is executing a step.
C7_SingleInitializationAmended ==
    /\ Cardinality({t \in Threads : pc[t] \in SlowPathPcs}) <= 1
    /\ \A t \in Threads :
           pc[t] \in SlowPathPcs \ {"ri_leave_ok"} => PrivateNamespace = "NULL"
    /\ Cardinality({t \in Threads : pc[t] \in {"ri_leave_ok", "ri_slow_ret"}}) <= 1
    /\ \A t1, t2 \in Threads :
           pc[t1] \in {"ri_leave_ok", "ri_slow_ret"} /\ t2 # t1
               => pc[t2] \notin SlowPathPcs

\* C7 witness: one caller has run the full initialization and a concurrent
\* caller has taken the fast path, executing none of the steps.
C7_Witness ==
    \E t1, t2 \in Threads :
        /\ pc[t1] = "ri_slow_ret"
        /\ pc[t2] = "ri_fast_ret"

\* C8 as stated: concurrent callers all return success, or all return failure
\* with the same error.
C8_UniformOutcome ==
    \A t1, t2 \in Threads :
        /\ ~(pc[t1] = "ri_fail_ret" /\ pc[t2] \in {"ri_fast_ret", "ri_slow_ret"})
        /\ (pc[t1] = "ri_fail_ret" /\ pc[t2] = "ri_fail_ret")
               => LastError[t1] = LastError[t2]

\* C8 amended: a caller returns success only with the context fully
\* initialized; it returns failure only with the error of its own failed
\* attempt, and an attempt fails only while no caller in flight has returned
\* success (a failure is not remembered: a later caller can succeed).
C8_OutcomeAmended ==
    /\ \A t \in Threads :
           pc[t] \in {"ri_fast_ret", "ri_slow_ret"}
               => /\ PrivateNamespace = "open"
                  /\ BoundaryDescriptor = "open"
                  /\ AlgProvider = "open"
    /\ \A t \in Threads :
           pc[t] \in {"ri_cl_boundary", "ri_cl_alg", "ri_cl_leave", "ri_fail_ret"}
               => LastError[t] \in InitErrors
    /\ \A t1, t2 \in Threads :
           pc[t1] \in {"ri_cl_boundary", "ri_cl_alg", "ri_cl_leave"}
               => pc[t2] \notin {"ri_fast_ret", "ri_slow_ret"}

\* C8 witness: of two concurrent callers one returns failure and the other,
\* whose attempt ran later, returns success.
C8_Witness ==
    \E t1, t2 \in Threads :
        /\ pc[t1] = "ri_fail_ret" /\ LastError[t1] \in InitErrors
        /\ pc[t2] = "ri_slow_ret"
        /\ PrivateNamespace = "open"

\* C9: after NamespaceDone an acquire call runs on a usable internal lock:
\* whenever a thread is inside an acquire call, Initializing is a valid
\* critical section, and no thread faults on it.
C9_TeardownThenAcquire ==
    \A t \in Threads :
        /\ pc[t] \in AcquirePcs => Initializing.valid
        /\ pc[t] # "faulted"

\* C10 as stated: with the internal lock free, the three fields are all
\* cleared or all live.
C10_AllOrNothing ==
    LockFree =>
        \/ /\ PrivateNamespace = "NULL"
           /\ BoundaryDescriptor = "NULL"
           /\ AlgProvider = "NULL"
        \/ /\ PrivateNamespace = "open"
           /\ BoundaryDescriptor = "open"
           /\ AlgProvider = "open"

\* C10 amended: with the internal lock free, the three objects are all open
\* (and PrivateNamespace is set) or none is open (and PrivateNamespace is
\* NULL); BoundaryDescriptor and AlgProvider are not cleared and may still
\* hold the value of the released object.
C10_AllOrNothingAmended ==
    LockFree =>
        \/ /\ PrivateNamespace = "NULL"
           /\ BoundaryDescriptor \in {"NULL", "closed"}
           /\ AlgProvider \in {"NULL", "closed"}
        \/ /\ PrivateNamespace = "open"
           /\ BoundaryDescriptor = "open"
           /\ AlgProvider = "open"

\* C10 witness: after a failed initialization or a teardown the lock is free,
\* PrivateNamespace is NULL and the other two fields are stale.
C10_Witness ==
    /\ LockFree
    /\ PrivateNamespace = "NULL"
    /\ BoundaryDescriptor = "closed"
    /\ AlgProvider = "closed"
    /\ \A t \in Threads : pc[t] = "idle"

\* Resources the calls in flight hold, counted from their locals.
OpenHashes == Cardinality({t \in Threads : Sha256[t] = "open"})
OpenBufs == Cardinality({t \in Threads : PoolNorm[t].state = "open"})
OpenHandles(m) ==
    Cardinality({t \in Threads : Mutex[t] = "open" /\ MutexName[t] = m})
\* Callers that terminated while holding a lock; a thread exit leaves its
\* handle open.
DeadThreads == {t \in Threads : pc[t] = "dead"}

\* C11: no leak on any return path of acquire.  The hash objects and name
\* buffers that exist are exactly those of calls still in flight, so a call
\* that has returned (with or without the handle) has destroyed its hash
\* object and freed its buffer; every open mutex handle belongs to a call in
\* flight, to a caller holding the returned handle, or to a terminated
\* holder; a cleanup statement releases a resource that is live, and nothing
\* is released twice.
C11_NoLeak ==
    /\ hashObjects = OpenHashes
    /\ heapBufs = OpenBufs
    /\ \A m \in MutexNames :
           /\ mutexes[m].handles >= OpenHandles(m)
           /\ mutexes[m].handles <= OpenHandles(m) + Cardinality(DeadThreads)
    /\ \A t \in Threads :
           /\ Sha256[t] # "misused" /\ PoolNorm[t].state # "misused"
           /\ Mutex[t] # "misused"
           /\ pc[t] = "tp_cl_sha" =>
                  Sha256[t] = "open" /\ PoolNorm[t].state \in {"NULL", "closed"}
                                     /\ Mutex[t] \in {"NULL", "closed"}
           /\ pc[t] = "tp_cl_poolnorm" =>
                  PoolNorm[t].state = "open" /\ Mutex[t] \in {"NULL", "closed"}
           /\ pc[t] \in {"idle", "dead", "faulted"} =>
                  Sha256[t] = "NULL" /\ PoolNorm[t] = NoBuf /\ Mutex[t] = "NULL"
           /\ pc[t] = "holding" =>
                  Sha256[t] = "NULL" /\ PoolNorm[t] = NoBuf /\ Mutex[t] = "open"

\* C11 witness: a pool acquire whose wait failed is at its last cleanup
\* statement: it has closed the mutex handle and freed the buffer, and its
\* hash object is the only one that exists.
C11_Witness ==
    \E t \in Threads :
        /\ pc[t] = "tp_cl_sha"
        /\ Mutex[t] = "closed" /\ PoolNorm[t].state = "closed"
        /\ Sha256[t] = "open" /\ hashObjects = 1 /\ heapBufs = 0
        /\ mutexes[MutexName[t]].handles = 0

\* C12: hash input length.  For a normalized name of n code units the bytes
\* fed to the hash after the label are the 2*n bytes of the name followed by
\* the 2 bytes of its terminator: the whole buffer, 2*n + 2 bytes.
C12_HashInputLength ==
    \A i \in 1..Len(dOut) :
        /\ Len(dOut[i].fed) = 2 * wcslen(dOut[i].PoolNorm) + 2
        /\ dOut[i].fed = BytesOf(dOut[i].PoolNorm)

\* The three return statements of NamespaceRuntimeInit (lines 56, 105, 114).
RuntimeInitReturnPcs == {"ri_fast_ret", "ri_slow_ret", "ri_fail_ret"}

\* Statements between EnterCriticalSection and LeaveCriticalSection in
\* NamespaceRuntimeInit (lines 53-104, 107-112).
RuntimeInitLockedPcs == {"ri_check"} \cup SlowPathPcs

\* C13: the internal lock is released on every exit.  A caller that is at a
\* return of NamespaceRuntimeInit (fast path, successful slow path, failure),
\* or past it in the acquire call, does not hold Initializing, just as it
\* did not hold it before the call; it holds the lock exactly while it is
\* between the Enter of line 52 and the Leave of its path.
C13_LockReleasedOnExit ==
    \A t \in Threads :
        /\ pc[t] \in RuntimeInitReturnPcs => Initializing.owner # t
        /\ pc[t] \in (AcquirePcs \ RuntimeInitLockedPcs) \cup {"idle", "holding"}
               => Initializing.owner # t
        /\ pc[t] \in RuntimeInitLockedPcs => Initializing.owner = t

\* C13 witness: a caller is at the failing return of NamespaceRuntimeInit
\* and the lock it has left is already held by the next caller.
C13_Witness ==
    \E t1, t2 \in Threads :
        /\ pc[t1] = "ri_fail_ret" /\ LastError[t1] \in InitErrors
        /\ pc[t2] = "ri_check"
        /\ Initializing.owner = t2

\* The sub-resources acquired before each failure point of
\* NamespaceRuntimeInit, in the order the cleanup labels release them.
AcquiredBefore(err) ==
    IF err = "ERR_OPEN_ALGORITHM" THEN <<>>
    ELSE IF err \in {"ERR_CREATE_SID", "ERR_CREATE_BOUNDARY"} THEN <<"AlgProvider">>
    ELSE <<"BoundaryDescriptor", "AlgProvider">>

\* Statements of the cleanup labels of NamespaceRuntimeInit (lines 107-112).
UnwindPcs == {"ri_cl_boundary", "ri_cl_alg", "ri_cl_leave"}

\* C14: initialization failure unwinding.  When an attempt fails, what it
\* has released by the time it leaves the lock is exactly what it acquired
\* before the failure point, the boundary descriptor before the algorithm
\* provider; each is released once, while the caller still holds the lock;
\* none of them is left open and PrivateNamespace is NULL, so the check of
\* line 53 sends the next caller through the initialization again.
C14_FailureUnwinding ==
    \A t \in Threads :
        /\ pc[t] \in UnwindPcs =>
               /\ Initializing.owner = t
               /\ LastError[t] \in InitErrors
               /\ PrivateNamespace = "NULL" /\ ~AlreadyInitialized
        /\ pc[t] \in {"ri_cl_leave", "ri_fail_ret"} =>
               rel[t] = AcquiredBefore(LastError[t])
        /\ pc[t] = "ri_cl_leave" =>
               /\ BoundaryDescriptor \in {"NULL", "closed"}
               /\ AlgProvider \in {"NULL", "closed"}
        /\ pc[t] = "ri_cl_boundary" => BoundaryDescriptor = "open" /\ rel[t] = <<>>
        /\ pc[t] = "ri_cl_alg" => AlgProvider = "open"

\* C14 witness: an attempt failed at the last step (opening the namespace),
\* has released the boundary descriptor and then the algorithm provider,
\* and still holds the lock.
C14_Witness ==
    \E t \in Threads :
        /\ pc[t] = "ri_cl_leave" /\ LastError[t] = "ERR_OPEN_NAMESPACE"
        /\ rel[t] = <<"BoundaryDescriptor", "AlgProvider">>
        /\ BoundaryDescriptor = "closed" /\ AlgProvider = "closed"
        /\ PrivateNamespace = "NULL" /\ Initializing.owner = t

\* Statements of the for (;;) loop of lines 87-102.
LoopPcs == {"ri_createns", "ri_openns"}

\* The continue of line 96.
Retry(t) == RI_OpenNamespace(t) /\ pc'[t] = "ri_createns"

\* C15: namespace create-or-open retry.  An open that fails with "path not
\* found" after a create that failed with "already exists" goes back to the
\* create step and is never returned as a failure; the loop is left only
\* with the namespace open or with a different error; and a caller in the
\* loop leaves it unless the retry recurs forever.
C15_CreateOrOpenRetry ==
    /\ [][\A t \in Threads :
            (pc[t] = "ri_createns" /\ pc'[t] # pc[t]) =>
                \/ pc'[t] = "ri_leave_ok" /\ PrivateNamespace' = "open"
                \/ /\ pc'[t] = "ri_openns"
                   /\ LastError'[t] = "ERROR_ALREADY_EXISTS"
                   /\ PrivateNamespace' = "NULL"
                \/ /\ pc'[t] = "ri_cl_boundary"
                   /\ LastError'[t] = "ERR_CREATE_NAMESPACE"
                   /\ PrivateNamespace' = "NULL"]_vars
    /\ [][\A t \in Threads :
            (pc[t] = "ri_openns" /\ pc'[t] # pc[t]) =>
                \/ pc'[t] = "ri_leave_ok" /\ PrivateNamespace' = "open"
                \/ /\ pc'[t] = "ri_createns"
                   /\ LastError'[t] = "ERROR_PATH_NOT_FOUND"
                   /\ PrivateNamespace' = "NULL"
                \/ /\ pc'[t] = "ri_cl_boundary"
                   /\ LastError'[t] = "ERR_OPEN_NAMESPACE"
                   /\ PrivateNamespace' = "NULL"]_vars
    /\ [](\A t \in Threads :
            pc[t] \in UnwindPcs \cup {"ri_fail_ret"} =>
                LastError[t] \notin {"ERROR_ALREADY_EXISTS", "ERROR_PATH_NOT_FOUND"})
    /\ \A t \in Threads :
           \/ []<><<Retry(t)>>_vars
           \/ (pc[t] \in LoopPcs) ~> (pc[t] \notin LoopPcs)

\* C15 witness: a caller is back at the create step after an open that
\* failed with "path not found", still holding the lock.
C15_Witness ==
    \E t \in Threads :
        /\ pc[t] = "ri_createns"
        /\ LastError[t] = "ERROR_PATH_NOT_FOUND"
        /\ PrivateNamespace = "NULL" /\ BoundaryDescriptor = "open"
        /\ Initializing.owner = t

\* The WaitForSingleObject statements (lines 172, 204).
WaitPcs == {"tp_wait", "ti_wait"}

\* Thread t is at its wait and the mutex it waits for has an owner.
Blocked(t) == pc[t] \in WaitPcs /\ ~WaitSatisfied(MutexName[t])

\* C16: the internal lock is not held across a lock wait.  A thread at the
\* wait of NamespaceTakePoolMutex or NamespaceTakeDriverInstallationMutex
\* does not hold Initializing and owns no mutex; so a thread that is about
\* to enter NamespaceRuntimeInit while another one is at its wait finds the
\* internal lock free unless a third thread holds it.
C16_LockNotHeldAcrossWait ==
    /\ \A t \in Threads :
           pc[t] \in WaitPcs =>
               /\ Initializing.owner # t
               /\ \A m \in MutexNames : mutexes[m].owner # t
    /\ \A t, u \in Threads :
           (/\ pc[t] \in WaitPcs
            /\ pc[u] = "ri_enter"
            /\ \A v \in Threads \ {t, u} : Initializing.owner # v)
           => Initializing.owner = NoThread

\* C16 witness: a caller is blocked in its wait on a mutex another caller
\* owns, and the internal lock is free.
C16_Witness ==
    \E t, u \in Threads :
        /\ Blocked(t)
        /\ mutexes[MutexName[t]].owner = u /\ pc[u] = "holding"
        /\ PrivateNamespace = "open"
        /\ Initializing.owner = NoThread

\* The statements after the waits, where Result is examined.
SwitchPcs == {"tp_switch", "ti_switch"}

\* C17: hard wait failure.  When the wait ends with a result other than
\* WAIT_OBJECT_0 or WAIT_ABANDONED, the call sets ERROR_GEN_FAILURE, gives up
\* the handle it created (the object loses one handle) and returns NULL with
\* that error; the handle is closed before the return and the caller is not
\* the owner of the mutex, nor of any other, afterwards.
C17_HardWaitFailure ==
    /\ [][\A t \in Threads :
            (pc[t] \in SwitchPcs /\ ~WaitSucceeded(Result[t]) /\ pc'[t] # pc[t]) =>
                /\ LastError'[t] = "ERROR_GEN_FAILURE"
                /\ mutexes'[MutexName[t]].handles = mutexes[MutexName[t]].handles - 1
                /\ \A m \in MutexNames : mutexes'[m].owner # t
                /\ Mutex'[t] # "open"
                /\ pc'[t] \in {"tp_cl_poolnorm", "idle"}
                /\ pc'[t] = "idle" => ret'[t] = "NULL"]_vars
    /\ [][\A t \in Threads :
            (pc[t] \in {"tp_cl_poolnorm", "tp_cl_sha"} /\ pc'[t] # pc[t]) =>
                /\ LastError'[t] = LastError[t]
                /\ pc'[t] \in {"tp_cl_sha", "idle"}
                /\ pc'[t] = "idle" => ret'[t] = "NULL"]_vars
    /\ [](\A t \in Threads :
            (pc[t] \in {"tp_cl_poolnorm", "tp_cl_sha"}
             /\ LastError[t] = "ERROR_GEN_FAILURE") =>
                /\ Mutex[t] = "closed"
                /\ \A m \in MutexNames : mutexes[m].owner # t)
    /\ [](\A t \in Threads :
            (pc[t] = "idle" /\ ret[t] = "NULL") =>
                /\ Mutex[t] = "NULL"
                /\ \A m \in MutexNames : mutexes[m].owner # t)

\* C17 witness: the wait of a pool acquire failed while another caller owns
\* the mutex; the call has closed its handle, the owner's handle is the only
\* one left, and the call is on its way to return NULL.
C17_Witness ==
    \E t, u \in Threads :
        /\ t # u
        /\ pc[t] = "tp_cl_poolnorm" /\ LastError[t] = "ERROR_GEN_FAILURE"
        /\ Mutex[t] = "closed"
        /\ pc[u] = "holding" /\ MutexName[u] = MutexName[t]
        /\ mutexes[MutexName[t]].owner = u
        /\ mutexes[MutexName[t]].handles = 1

\* NamespaceDone runs on an uninitialized context: it is past its check and
\* has closed nothing.
DoneOnUninitialized(t) == pc[t] \in {"nd_leave", "nd_delete"} /\ rel[t] = <<>>

\* C18: teardown effect and frame.  On an initialized context NamespaceDone
\* closes the algorithm provider, the namespace handle and the boundary
\* descriptor once each and leaves PrivateNamespace NULL.  On an
\* uninitialized context it changes nothing: not the context, not the
\* mutexes, and the internal lock is after the call what it was before it
\* (a valid, free critical section).
C18_TeardownEffectAndFrame ==
    /\ [][\A t \in Threads :
            (pc[t] = "nd_close" /\ pc'[t] # pc[t]) =>
                /\ AlgProvider = "open" /\ AlgProvider' = "closed"
                /\ BoundaryDescriptor = "open" /\ BoundaryDescriptor' = "closed"
                /\ PrivateNamespace = "open" /\ PrivateNamespace' = "NULL"
                /\ rel'[t] = <<"AlgProvider", "PrivateNamespace", "BoundaryDescriptor">>]_vars
    /\ [][\A t \in Threads :
            (pc[t] \in DonePcs /\ pc'[t] # pc[t] /\ pc[t] # "nd_close") =>
                UNCHANGED <<ctx, mutexes, heap>>]_vars
    /\ [][\A t \in Threads :
            (pc[t] = "nd_delete" /\ DoneOnUninitialized(t) /\ pc'[t] = "idle") =>
                /\ Initializing.valid => Initializing'.valid
                /\ Initializing'.owner = NoThread]_vars

\* Some caller is at its wait on the mutex named m.
HasWaiter(m) == \E t \in Threads : pc[t] \in WaitPcs /\ MutexName[t] = m

\* The mutex named m is free while a caller waits for it: its holder has
\* called NamespaceReleaseMutex or has terminated.
FreeWithWaiter(m) == mutexes[m].owner = NoThread /\ HasWaiter(m)

\* Some caller has returned from acquire holding the mutex named m.
ReturnedHolding(m) ==
    \E t \in Threads :
        pc[t] = "holding" /\ MutexName[t] = m /\ mutexes[m].owner = t

\* The wait of some caller on the mutex named m has ended in a hard failure.
WaitHardFailed(m) ==
    \E t \in Threads :
        pc[t] \in SwitchPcs /\ MutexName[t] = m /\ ~WaitSucceeded(Result[t])

\* The holder gives the lock up: ReleaseMutex (line 221) or termination.
HolderLeaves(t) == pc[t] = "holding" /\ pc'[t] \in {"rm_close", "dead"}

\* C19 as stated: once the holder has released the lock or terminated while
\* a caller is blocked on it, some caller eventually returns from acquire
\* holding the lock; and the release leaves the lock without owner.
C19_ProgressAfterRelease ==
    /\ [][\A t \in Threads :
            HolderLeaves(t) => mutexes'[MutexName[t]].owner = NoThread]_vars
    /\ \A m \in MutexNames : FreeWithWaiter(m) ~> ReturnedHolding(m)

\* C19 amended: the same, except that a wait may end in a hard failure, in
\* which case that caller returns NULL (C17) and nobody need hold the lock.
C19_ProgressAmended ==
    /\ [][\A t \in Threads :
            HolderLeaves(t) => mutexes'[MutexName[t]].owner = NoThread]_vars
    /\ \A m \in MutexNames :
           FreeWithWaiter(m) ~> (ReturnedHolding(m) \/ WaitHardFailed(m))

\* C19 witness: the holder has called ReleaseMutex and not yet closed its
\* handle, and another caller is at its wait on the same mutex, which is
\* now free.
C19_Witness ==
    \E t, u \in Threads :
        /\ pc[t] = "rm_close"
        /\ pc[u] \in WaitPcs /\ MutexName[u] = MutexName[t]
        /\ FreeWithWaiter(MutexName[u])
        /\ mutexes[MutexName[u]].handles = 2

\* Statements of the acquire calls after NamespaceRuntimeInit has returned
\* TRUE, up to the creation of the mutex.
UsesContextPcs == {"tp_createhash", "tp_derive", "tp_createmutex", "ti_createmutex"}

\* C20: resources are used only while live.  With no teardown during an
\* acquire, a caller that is past a successful NamespaceRuntimeInit finds the
\* algorithm provider and the private namespace open until it has created
\* its mutex: a hash object is created only from an open provider and a
\* mutex only in an open namespace; and a caller whose NamespaceRuntimeInit
\* failed returns NULL at once, creating no hash object and no mutex and
\* leaving the context as it is.
C20_UsedOnlyWhileLive ==
    /\ [](\A t \in Threads :
            pc[t] \in UsesContextPcs \cup {"ri_fast_ret", "ri_slow_ret"} =>
                /\ AlgProvider = "open"
                /\ BoundaryDescriptor = "open"
                /\ PrivateNamespace = "open")
    /\ [][hashObjects' > hashObjects => AlgProvider = "open"]_vars
    /\ [][\A m \in MutexNames :
            mutexes'[m].handles > mutexes[m].handles => PrivateNamespace = "open"]_vars
    /\ [][\A t \in Threads :
            (pc[t] = "ri_fail_ret" /\ pc'[t] # pc[t]) =>
                /\ pc'[t] = "idle" /\ ret'[t] = "NULL"
                /\ Mutex'[t] = "NULL" /\ Sha256'[t] = "NULL"
                /\ UNCHANGED <<ctx, mutexes, heap>>]_vars

\* C20 witness: a caller is about to create its hash object from the open
\* provider while another caller, whose own initialization attempt failed
\* earlier, has not yet returned.
C20_Witness ==
    \E t, u \in Threads :
        /\ pc[t] = "tp_createhash" /\ AlgProvider = "open"
        /\ PrivateNamespace = "open"
        /\ pc[u] = "ri_fail_ret" /\ LastError[u] \in InitErrors

====
